---- MODULE Spec2Model ----
(***************************************************************************)
(* A model of bot.py, the GeoGuessr daily challenge bot: the module-level  *)
(* state (current_challenge, challenge_history, the tasks.loop object      *)
(* daily_challenge_cycle), the command handlers and the daily cycle.       *)
(*                                                                         *)
(* Python values are kept in their shape: a dict is a record (a missing    *)
(* key is a missing field, the empty dict is the empty function <<>>), a   *)
(* list is a sequence, None is the value None, a str is a string.  A       *)
(* datetime is the string "day<n>", n being the index of the day since a   *)
(* Monday (the model's clock has the granularity of a day).                *)
(*                                                                         *)
(* The event loop is single-threaded: a coroutine runs without             *)
(* interruption from one await to the next.  requests.get/post are         *)
(* blocking calls, not awaits.  An action of the model is therefore the    *)
(* code between two awaits that matter to the shared state.                *)
(***************************************************************************)
EXTENDS Integers, Sequences, FiniteSets, TLC

VARIABLES
    names_bound,        \* whether CHANNEL_ID and is_allowed_channel are bound
    current_challenge,  \* bot.py:91-98
    challenge_history,  \* bot.py:90
    loop_task,          \* the state of the tasks.loop object of bot.py:188
    today,              \* the wall clock, as a day index (day 0 is a Monday)
    ticks,              \* midnights passed since the process started
    tokens_issued,      \* the remote service: challenges created for the cycle
    cycles,             \* the invocations of daily_challenge_cycle in flight
    event               \* what the last step did (messages sent, remote calls)

vars == <<names_bound, current_challenge, challenge_history, loop_task,
          today, ticks, tokens_issued, cycles, event>>

----------------------------------------------------------------------------
(* Bounds of the model. *)

MaxTicks == 1
MaxTokens == 2
MaxCycles == 2
MaxItems == 3
MaxCap == 2

----------------------------------------------------------------------------
(* Python's None, and the truth value of a str-or-None (`not x`). *)

None == "<None>"

Falsy(x) == x = None \/ x = ""

\* f"{x}" of a str-or-None
Str(x) == IF x = None THEN "None" ELSE x

----------------------------------------------------------------------------
(* Configuration tables. *)

\* channel ids are only ever compared, so they are kept as strings
ALLOWED_CHANNELS == <<"1386753541309468702", "1386746260819804220">>

GAME_MODES ==
    [nomove |-> [name |-> "No Move",
                 settings |-> [forbidMoving |-> TRUE, forbidZooming |-> TRUE,
                               forbidRotating |-> TRUE, timeLimit |-> 120]],
     move   |-> [name |-> "Moving",
                 settings |-> [forbidMoving |-> FALSE, forbidZooming |-> FALSE,
                               forbidRotating |-> FALSE, timeLimit |-> 300]],
     nmpz   |-> [name |-> "NMPZ",
                 settings |-> [forbidMoving |-> TRUE, forbidZooming |-> TRUE,
                               forbidRotating |-> TRUE, timeLimit |-> 90]]]

MAPS ==
    [community_world |-> [id |-> "62a44b22040f04bd36e8a914", name |-> "A Community World"],
     informed_world  |-> [id |-> "676340ae2f718dbabdf30331", name |-> "An Informed World"],
     pro_world       |-> [id |-> "6620b311f64a7b842b2ca83a", name |-> "A Pro World"],
     arbitrary_rural |-> [id |-> "643dbc7ccc47d3a344307998", name |-> "An Arbitrary Rural World"],
     rainbolt_world  |-> [id |-> "65c86935d327035509fd616f", name |-> "A Rainbolt World"]]

\* Python indexes the list from 0 (Monday); the sequence is indexed from 1.
DAILY_ROTATION ==
    << [map |-> "community_world", mode |-> "move"],
       [map |-> "pro_world",       mode |-> "nomove"],
       [map |-> "arbitrary_rural", mode |-> "nmpz"],
       [map |-> "informed_world",  mode |-> "move"],
       [map |-> "community_world", mode |-> "nomove"],
       [map |-> "rainbolt_world",  mode |-> "nmpz"],
       [map |-> "informed_world",  mode |-> "nomove"] >>

----------------------------------------------------------------------------
(* The clock. *)

\* datetime.datetime.now(), at the granularity of a day
Now(day) == "day" \o ToString(day)

\* datetime.weekday(): Monday = 0 .. Sunday = 6
weekday(day) == day % 7

get_today_rotation_sunday_first(day) == DAILY_ROTATION[((weekday(day) + 1) % 7) + 1]

get_today_rotation(day) == DAILY_ROTATION[weekday(day) + 1]

----------------------------------------------------------------------------
(* The remote service, as seen through requests. *)

\* What POST /challenges can answer when it is the n-th challenge created.
CreateResponses(n) ==
    { [kind |-> "network_error"],
      [kind |-> "http_error"],
      [kind |-> "ok", json |-> [message |-> "no token here"]],
      [kind |-> "ok", json |-> [token |-> "tok" \o ToString(n)]] }

\* create_challenge with `challenge_id = str(data.get('token'))`: a missing
\* token becomes the non-empty string "None"
create_challenge_str_token(map_id, game_mode, response) ==
    IF game_mode \notin DOMAIN GAME_MODES THEN <<None, None>>
    ELSE IF response.kind # "ok" THEN <<None, None>>
    ELSE LET challenge_id == IF "token" \in DOMAIN response.json
                             THEN response.json.token ELSE "None"
         IN  <<challenge_id, "https://www.geoguessr.com/challenge/" \o challenge_id>>

\* GeoGuessrAPI.create_challenge: <<challenge_id, challenge_url>>
create_challenge(map_id, game_mode, response) ==
    IF game_mode \notin DOMAIN GAME_MODES THEN <<None, None>>
    ELSE IF response.kind # "ok" THEN <<None, None>>   \* requests.RequestException
    ELSE LET challenge_id == IF "token" \in DOMAIN response.json
                             THEN response.json.token ELSE None
         IN  <<challenge_id, "https://www.geoguessr.com/challenge/" \o Str(challenge_id)>>

\* An optional value: what a function returning Optional[dict] returns.
Nothing == [is_none |-> TRUE]

Some(v) == [is_none |-> FALSE, value |-> v]

\* The player objects of a results payload: complete, without a nick, without
\* a score.
Ann == [nick |-> "ann", totalScore |-> [amount |-> 24567]]

NoNick == [totalScore |-> [amount |-> 1234]]

NoScore == [nick |-> "bob"]

Item(player) == [game |-> [player |-> player]]

\* an item without 'game'
NoGame == [playerName |-> "dan"]

\* The JSON bodies GET /results/highscores/{id} can answer with: the empty
\* dict, a dict without 'items', and lists of items, well-formed and not.
Payloads ==
    { <<>>,
      [message |-> "no items here"],
      [items |-> <<>>],
      [items |-> <<Item(Ann)>>],
      [items |-> <<Item(Ann), Item(NoNick)>>],
      [items |-> <<Item(Ann), Item(NoScore)>>],
      [items |-> <<NoGame>>],
      [items |-> <<NoGame, Item(Ann)>>] }

FetchResponses ==
    { [kind |-> "network_error"], [kind |-> "http_error"] }
    \cup { [kind |-> "ok", json |-> p] : p \in Payloads }

\* GeoGuessrAPI.get_challenge_results: Optional[dict]
get_challenge_results(challenge_id, response) ==
    IF response.kind # "ok" THEN Nothing     \* requests.RequestException
    ELSE Some(response.json)

\* `not results` of an Optional[dict]: None and the empty dict are falsy
NotResults(results) == results.is_none \/ DOMAIN results.value = {}

----------------------------------------------------------------------------
(* format_leaderboard. *)

Min(a, b) == IF a < b THEN a ELSE b

Pad3(k) == IF k < 10 THEN "00" \o ToString(k)
           ELSE IF k < 100 THEN "0" \o ToString(k) ELSE ToString(k)

\* format(n, ','): the decimal digits in groups of three
RECURSIVE Commas(_)
Commas(n) == IF n < 1000 THEN ToString(n)
             ELSE Commas(n \div 1000) \o "," \o Pad3(n % 1000)

\* A Python value that is an int or a str, with its type.
IntVal(n) == [type |-> "int", int |-> n]

StrVal(s) == [type |-> "str", str |-> s]

\* player.get('nick', 'Unknown')
NickOf(player) == IF "nick" \in DOMAIN player THEN player.nick ELSE "Unknown"

\* player.get('totalScore', {}).get('amount', default)
AmountOf(player, default) ==
    IF "totalScore" \in DOMAIN player /\ "amount" \in DOMAIN player.totalScore
    THEN IntVal(player.totalScore.amount)
    ELSE default

\* f"{score:,}" raises ValueError for a str: ',' is no format of a str
FormatRaises(score) == score.type = "str"

Medal(i) == IF i = 1 THEN "(gold) " ELSE IF i = 2 THEN "(silver) "
            ELSE IF i = 3 THEN "(bronze) " ELSE ""

HasPlayer(player_data) ==
    "game" \in DOMAIN player_data /\ "player" \in DOMAIN player_data.game

\* f"{medal}{i}. **{nick}** - {score:,}"
Line(i, player) ==
    Medal(i) \o ToString(i) \o ". **" \o NickOf(player) \o "** - "
    \o Commas(AmountOf(player, StrVal("0")).int)

\* the loop of format_leaderboard over player_list[i..], with the lines so far
RECURSIVE FormatFrom(_, _, _)
FormatFrom(player_list, i, leaderboard) ==
    IF i > Len(player_list) THEN [raised |-> FALSE, value |-> leaderboard]
    ELSE IF ~HasPlayer(player_list[i]) THEN FormatFrom(player_list, i + 1, leaderboard)
    ELSE LET player == player_list[i].game.player
         IN  IF FormatRaises(AmountOf(player, StrVal("0")))
             THEN [raised |-> TRUE, value |-> leaderboard]
             ELSE FormatFrom(player_list, i + 1, Append(leaderboard, Line(i, player)))

DefaultMaxPlayers == 10

\* format_leaderboard with the slice `results['items'][:max_players + 1]`
format_leaderboard_one_past_cap(results, max_players) ==
    IF "items" \in DOMAIN results
    THEN LET player_list == SubSeq(results.items, 1,
                                   Min(Len(results.items), max_players + 1))
         IN  FormatFrom(player_list, 1, <<>>)
    ELSE [raised |-> FALSE, value |-> <<>>]

\* format_leaderboard(results, max_players): the list of lines, or ValueError
format_leaderboard(results, max_players) ==
    IF "items" \in DOMAIN results
    THEN LET player_list == SubSeq(results.items, 1, Min(Len(results.items), max_players))
         IN  FormatFrom(player_list, 1, <<>>)
    ELSE [raised |-> FALSE, value |-> <<>>]

----------------------------------------------------------------------------
(* The names bot.py uses and never binds.                                  *)
(*                                                                         *)
(* bot.py calls is_allowed_channel(ctx) and reads CHANNEL_ID, and defines  *)
(* neither.  With the module as it stands (names_bound = FALSE) a handler  *)
(* that reaches one of them raises NameError, which on_command_error       *)
(* reports.  With names_bound = TRUE the two names are bound to the        *)
(* channel restriction the command surface describes.                      *)

Range(q) == { q[k] : k \in 1..Len(q) }

is_allowed_channel(channel_id) == channel_id \in Range(ALLOWED_CHANNELS)

CHANNEL_ID == ALLOWED_CHANNELS[1]

\* the channels a command can come from: the allowed ones and another one
Channels == Range(ALLOWED_CHANNELS) \cup {"1111111111111111111"}

\* `if not is_allowed_channel(ctx): return`
AllowedGate(channel_id) ==
    IF ~names_bound THEN "NameError"
    ELSE IF ~is_allowed_channel(channel_id) THEN "ignored" ELSE "pass"

\* `if ctx.channel.id != CHANNEL_ID: return`
ChannelIdGate(channel_id) ==
    IF ~names_bound THEN "NameError"
    ELSE IF channel_id # CHANNEL_ID THEN "ignored" ELSE "pass"

----------------------------------------------------------------------------
(* The state and the functions that read and write it. *)

InitialChallenge ==
    [id |-> None, url |-> None, map |-> None, mode |-> None,
     created_at |-> None, day_number |-> 0]

\* A remote call that was made, with the kind of answer it got.
HasToken(response) == response.kind = "ok" /\ "token" \in DOMAIN response.json

Created(response) ==
    [call |-> "create",
     answer |-> IF response.kind # "ok" THEN response.kind
                ELSE IF HasToken(response) THEN "token" ELSE "no_token"]

\* the shape of a JSON body of GET /results/highscores/{id}: the empty object,
\* an object without 'items', one with an empty list, one with entries
PayloadShape(json) ==
    IF DOMAIN json = {} THEN "empty_object"
    ELSE IF "items" \notin DOMAIN json THEN "no_items"
    ELSE IF Len(json.items) = 0 THEN "no_entries" ELSE "entries"

Fetched(response) ==
    [call |-> "fetch",
     answer |-> IF response.kind # "ok" THEN response.kind
                ELSE PayloadShape(response.json)]

Calls(remote) == { c.call : c \in remote }

\* What a call leaves behind: its outcome, the remote calls it made, and the
\* two globals after it.
Outcome(result, remote, cur, hist) ==
    [result |-> result, remote |-> remote,
     current_challenge |-> cur, challenge_history |-> hist]

\* the dict of bot.py:276-283 without the `+ 1`
NewChallenge_keeps_day_number(cur, challenge_id, challenge_url, map_key, mode_key, day) ==
    [id |-> challenge_id, url |-> challenge_url, map |-> map_key, mode |-> mode_key,
     created_at |-> Now(day), day_number |-> cur.day_number]

\* the dict of bot.py:276-283 numbered by the weekday (Monday is day 1)
NewChallenge_numbers_by_weekday(cur, challenge_id, challenge_url, map_key, mode_key, day) ==
    [id |-> challenge_id, url |-> challenge_url, map |-> map_key, mode |-> mode_key,
     created_at |-> Now(day), day_number |-> weekday(day) + 1]

\* the dict of bot.py:276-283
NewChallenge(cur, challenge_id, challenge_url, map_key, mode_key, day) ==
    [id |-> challenge_id, url |-> challenge_url, map |-> map_key, mode |-> mode_key,
     created_at |-> Now(day), day_number |-> cur.day_number + 1]

\* create_todays_challenge that appends the record it replaces (if there is
\* one) instead of the new one
create_todays_challenge_appends_previous(cur, hist, day, response) ==
    LET rotation == get_today_rotation(day)
        created  == create_challenge(MAPS[rotation.map].id, rotation.mode, response)
    IN  IF Falsy(created[1])
        THEN Outcome("create_failed", {Created(response)}, cur, hist)
        ELSE Outcome("created", {Created(response)},
                     NewChallenge(cur, created[1], created[2], rotation.map,
                                  rotation.mode, day),
                     IF Falsy(cur.id) THEN hist ELSE Append(hist, cur))

\* create_todays_challenge that counts the attempt before it knows whether the
\* remote call succeeded
create_todays_challenge_counts_attempts(cur, hist, day, response) ==
    LET rotation == get_today_rotation(day)
        created  == create_challenge(MAPS[rotation.map].id, rotation.mode, response)
        counted  == [cur EXCEPT !.day_number = @ + 1]
    IN  IF Falsy(created[1])
        THEN Outcome("create_failed", {Created(response)}, counted, hist)
        ELSE LET new == NewChallenge(cur, created[1], created[2], rotation.map,
                                     rotation.mode, day)
             IN  Outcome("created", {Created(response)}, new, Append(hist, new))

\* create_todays_challenge that keeps one history entry per day: a second
\* challenge of the same day takes the place of the first in the history
create_todays_challenge_one_per_day(cur, hist, day, response) ==
    LET rotation == get_today_rotation(day)
        created  == create_challenge(MAPS[rotation.map].id, rotation.mode, response)
        new      == NewChallenge(cur, created[1], created[2], rotation.map,
                                 rotation.mode, day)
    IN  IF Falsy(created[1])
        THEN Outcome("create_failed", {Created(response)}, cur, hist)
        ELSE IF hist # <<>> /\ hist[Len(hist)].created_at = Now(day)
        THEN Outcome("created", {Created(response)}, new,
                     [hist EXCEPT ![Len(hist)] = new])
        ELSE Outcome("created", {Created(response)}, new, Append(hist, new))

\* create_todays_challenge(channel), on the globals cur and hist
create_todays_challenge(cur, hist, day, response) ==
    LET rotation == get_today_rotation(day)
        map_key  == rotation.map
        mode_key == rotation.mode
    IN  IF map_key \notin DOMAIN MAPS \/ mode_key \notin DOMAIN GAME_MODES
        THEN Outcome("invalid_config", {}, cur, hist)
        ELSE LET created == create_challenge(MAPS[map_key].id, mode_key, response)
                 challenge_id  == created[1]
                 challenge_url == created[2]
             IN  IF Falsy(challenge_id)
                 THEN Outcome("create_failed", {Created(response)}, cur, hist)
                 ELSE LET new == NewChallenge(cur, challenge_id, challenge_url,
                                              map_key, mode_key, day)
                      IN  Outcome("created", {Created(response)}, new, Append(hist, new))

\* post_previous_results that retires the challenge whose results it posted
post_previous_results_clears(cur, hist, response) ==
    LET results == get_challenge_results(cur.id, response)
    IN  IF NotResults(results)
        THEN Outcome("fetch_failed", {Fetched(response)}, cur, hist)
        ELSE Outcome("results_posted", {Fetched(response)},
                     [cur EXCEPT !.id = None, !.url = None], hist)

\* post_previous_results(channel), on the globals cur and hist
post_previous_results(cur, hist, response) ==
    LET results == get_challenge_results(cur.id, response)
    IN  IF NotResults(results)
        THEN Outcome("fetch_failed", {Fetched(response)}, cur, hist)
        ELSE LET leaderboard == format_leaderboard(results.value, DefaultMaxPlayers)
             IN  IF leaderboard.raised
                 THEN Outcome("ValueError", {Fetched(response)}, cur, hist)
                 ELSE IF leaderboard.value = <<>>
                 THEN Outcome("no_results", {Fetched(response)}, cur, hist)
                 \* results['items'][0]['game']['player'], bot.py:239
                 ELSE IF ~HasPlayer(results.value.items[1])
                 THEN Outcome("KeyError", {Fetched(response)}, cur, hist)
                 ELSE Outcome("results_posted", {Fetched(response)}, cur, hist)

Raised(result) == result \in {"ValueError", "KeyError", "NameError"}

\* daily_challenge_cycle() up to its first await that another coroutine can
\* use, or to its end: `next` tells whether the invocation goes on to
\* asyncio.sleep(2) and create_todays_challenge, or is over.
daily_challenge_cycle(cur, hist, day, target_channel, fetch_response, create_response) ==
    IF ~target_channel
    THEN [op |-> "daily_challenge_cycle", next |-> "over",
          out |-> Outcome("no_channel", {}, cur, hist)]
    ELSE IF ~Falsy(cur.id)
    THEN LET out == post_previous_results(cur, hist, fetch_response)
         IN  [op |-> "post_previous_results",
              next |-> IF Raised(out.result) THEN "over" ELSE "sleeping",
              out |-> out]
    ELSE [op |-> "create_todays_challenge", next |-> "over",
          out |-> create_todays_challenge(cur, hist, day, create_response)]

\* manual_challenge that leaves the check of the mode to create_challenge
manual_challenge_trusts_mode(cur, hist, day, map_name, mode_name, response) ==
    LET use_rotation == Falsy(map_name) \/ Falsy(mode_name)
        map  == IF use_rotation THEN get_today_rotation(day).map ELSE map_name
        mode == IF use_rotation THEN get_today_rotation(day).mode ELSE mode_name
    IN  IF map \notin DOMAIN MAPS THEN Outcome("invalid_map", {}, cur, hist)
        ELSE IF Falsy(create_challenge(MAPS[map].id, mode, response)[1])
        THEN Outcome("create_failed", {Created(response)}, cur, hist)
        ELSE Outcome("created", {Created(response)}, cur, hist)

\* manual_challenge(ctx, map_name, mode_name), past its channel check
manual_challenge(cur, hist, day, map_name, mode_name, response) ==
    LET use_rotation == Falsy(map_name) \/ Falsy(mode_name)
        map  == IF use_rotation THEN get_today_rotation(day).map ELSE map_name
        mode == IF use_rotation THEN get_today_rotation(day).mode ELSE mode_name
    IN  IF map \notin DOMAIN MAPS THEN Outcome("invalid_map", {}, cur, hist)
        ELSE IF mode \notin DOMAIN GAME_MODES THEN Outcome("invalid_mode", {}, cur, hist)
        ELSE IF Falsy(create_challenge(MAPS[map].id, mode, response)[1])
        THEN Outcome("create_failed", {Created(response)}, cur, hist)
        ELSE Outcome("created", {Created(response)}, cur, hist)

\* get_leaderboard without the check of current_challenge['id']
get_leaderboard_no_guard(cur, hist, challenge_id, response) ==
    LET id      == IF Falsy(challenge_id) THEN cur.id ELSE challenge_id
        results == get_challenge_results(id, response)
    IN  IF NotResults(results)
        THEN Outcome("fetch_failed", {Fetched(response)}, cur, hist)
        ELSE Outcome("results_posted", {Fetched(response)}, cur, hist)

\* get_leaderboard(ctx, challenge_id), past its channel check
get_leaderboard(cur, hist, challenge_id, response) ==
    IF Falsy(challenge_id) /\ Falsy(cur.id)
    THEN Outcome("no_active_challenge", {}, cur, hist)
    ELSE LET id      == IF Falsy(challenge_id) THEN cur.id ELSE challenge_id
             results == get_challenge_results(id, response)
         IN  IF NotResults(results)
             THEN Outcome("fetch_failed", {Fetched(response)}, cur, hist)
             ELSE LET leaderboard == format_leaderboard(results.value, DefaultMaxPlayers)
                  IN  IF leaderboard.raised
                      THEN Outcome("ValueError", {Fetched(response)}, cur, hist)
                      ELSE IF leaderboard.value = <<>>
                      THEN Outcome("no_results", {Fetched(response)}, cur, hist)
                      ELSE Outcome("results_posted", {Fetched(response)}, cur, hist)

----------------------------------------------------------------------------
(* The tasks.loop object daily_challenge_cycle (discord.ext.tasks.Loop).   *)
(* loop_task is "none" before the first start(), "running" while the       *)
(* loop's task lives, "cancelled" after cancel() ended it, "failed" after  *)
(* an exception of the body ended it.                                      *)

\* daily_challenge_cycle.is_cancelled(): the library is not part of src/; the
\* call is read by its name, true exactly when cancel() ended the loop's task
is_cancelled(task) == task = "cancelled"

\* daily_challenge_cycle.cancel(): cancels the task if there is a live one
cancel(task) == IF task = "running" THEN "cancelled" ELSE task

\* start_daily_task(ctx), past its channel check
start_daily_task(task) ==
    IF ~is_cancelled(task)
    THEN [result |-> "already_running", loop_task |-> task]
    ELSE [result |-> "started", loop_task |-> "running"]

\* stop_daily_task(ctx), past its channel check
stop_daily_task(task) == [result |-> "stopped", loop_task |-> cancel(task)]

----------------------------------------------------------------------------
(* The state machine. *)

\* `channels` is empty for a step that no command started
Event(op, result, remote, args) ==
    [op |-> op, result |-> result, remote |-> remote, args |-> args, channels |-> {}]

\* a step of a command handler: the channels the command can have come from
\* for its channel check to end as it did
From(channels, e) == [e EXCEPT !.channels = channels]

ViaAllowedGate(gate) == { ch \in Channels : AllowedGate(ch) = gate }

ViaChannelIdGate(gate) == { ch \in Channels : ChannelIdGate(ch) = gate }

NoCycles == [entered |-> 0, sleeping |-> 0, loop |-> "none"]

\* the invocations of daily_challenge_cycle in flight
InFlight(c) == c.entered + c.sleeping + (IF c.loop = "none" THEN 0 ELSE 1)

\* the invocations between post_previous_results and create_todays_challenge
Waiting(c) == c.sleeping + (IF c.loop = "sleeping" THEN 1 ELSE 0)

\* what POST /challenges can answer now
CreateResponsesNow ==
    { r \in CreateResponses(tokens_issued + 1) : HasToken(r) => tokens_issued < MaxTokens }

TokensAfter(out, response) ==
    IF "create" \in Calls(out.remote) /\ HasToken(response)
    THEN tokens_issued + 1 ELSE tokens_issued

\* the days the process can start on: every other day of a week, so that
\* with one midnight passing every weekday is reached
StartDays == {0, 2, 4, 6}

Init ==
    /\ names_bound \in BOOLEAN
    /\ current_challenge = InitialChallenge
    /\ challenge_history = <<>>
    /\ loop_task = "none"
    /\ today \in StartDays
    /\ ticks = 0
    /\ tokens_issued = 0
    /\ cycles = NoCycles
    /\ event = Event("init", "", {}, <<>>)

\* midnight passes
Tick ==
    /\ ticks < MaxTicks
    /\ ticks' = ticks + 1
    /\ today' = today + 1
    /\ event' = Event("tick", "", {}, <<>>)
    /\ UNCHANGED <<names_bound, current_challenge, challenge_history, loop_task,
                   tokens_issued, cycles>>

\* the response that is not asked for is not drawn
NoResponse == [kind |-> "network_error"]

\* the arguments of !challenge: none (today's rotation), valid ones, a map
\* and a mode that do not exist
ManualArgs ==
    { <<None, None>>, <<"pro_world", "nomove">>, <<"arbitrary_rural", "nmpz">>,
      <<"atlantis", "nomove">>, <<"pro_world", "zoom">> }

ReachesCreate(args) ==
    (Falsy(args[1]) \/ Falsy(args[2]))
    \/ (args[1] \in DOMAIN MAPS /\ args[2] \in DOMAIN GAME_MODES)

\* What POST /challenges can answer to !challenge: the token of a challenge
\* created there is only sent on and never kept, so one name stands for all
\* of them.
ManualCreateResponses == CreateResponses(0)

\* !challenge [map] [mode]
ManualChallenge ==
    \E gate \in { AllowedGate(ch) : ch \in Channels } :
            \/ /\ gate # "pass"
               /\ event' = From(ViaAllowedGate(gate),
                                Event("manual_challenge", gate, {}, <<>>))
               /\ UNCHANGED <<names_bound, current_challenge, challenge_history,
                              loop_task, today, ticks, tokens_issued, cycles>>
            \/ /\ gate = "pass"
               /\ \E args \in ManualArgs :
                  \E response \in IF ReachesCreate(args) THEN ManualCreateResponses
                                  ELSE {NoResponse} :
                    LET out == manual_challenge(current_challenge, challenge_history,
                                                today, args[1], args[2], response)
                    IN  /\ event' = From(ViaAllowedGate(gate),
                                         Event("manual_challenge", out.result,
                                               out.remote, args))
                        /\ current_challenge' = out.current_challenge
                        /\ challenge_history' = out.challenge_history
                        /\ UNCHANGED <<names_bound, loop_task, today, ticks,
                                       tokens_issued, cycles>>

\* the ids a caller of !leaderboard can name: none, or one it knows
IdArgs == {None, "tok1"}

\* !leaderboard [challenge_id]
GetLeaderboard ==
    \E gate \in { AllowedGate(ch) : ch \in Channels } :
            \/ /\ gate # "pass"
               /\ event' = From(ViaAllowedGate(gate),
                                Event("get_leaderboard", gate, {}, <<>>))
               /\ UNCHANGED <<names_bound, current_challenge, challenge_history,
                              loop_task, today, ticks, tokens_issued, cycles>>
            \/ /\ gate = "pass"
               /\ \E challenge_id \in IdArgs :
                  \E response \in IF Falsy(challenge_id) /\ Falsy(current_challenge.id)
                                  THEN {NoResponse} ELSE FetchResponses :
                    LET out == get_leaderboard(current_challenge, challenge_history,
                                               challenge_id, response)
                    IN  /\ event' = From(ViaAllowedGate(gate),
                                         Event("get_leaderboard", out.result,
                                               out.remote, <<challenge_id>>))
                        /\ current_challenge' = out.current_challenge
                        /\ challenge_history' = out.challenge_history
                        /\ UNCHANGED <<names_bound, loop_task, today, ticks,
                                       tokens_issued, cycles>>

\* !status: reads the globals and the loop, writes nothing
CheckStatus ==
    \E gate \in { ChannelIdGate(ch) : ch \in Channels } :
        /\ event' = From(ViaChannelIdGate(gate),
                         Event("check_status",
                               IF gate # "pass" THEN gate
                               ELSE IF ~is_cancelled(loop_task) THEN "Running"
                               ELSE "Stopped",
                               {}, <<>>))
        /\ UNCHANGED <<names_bound, current_challenge, challenge_history, loop_task,
                       today, ticks, tokens_issued, cycles>>

\* !start_daily
StartDaily ==
    \E gate \in { ChannelIdGate(ch) : ch \in Channels } :
        LET out  == start_daily_task(loop_task)
        IN  /\ event' = From(ViaChannelIdGate(gate),
                             Event("start_daily_task",
                                   IF gate # "pass" THEN gate ELSE out.result, {}, <<>>))
            /\ loop_task' = IF gate # "pass" THEN loop_task ELSE out.loop_task
            /\ UNCHANGED <<names_bound, current_challenge, challenge_history,
                           today, ticks, tokens_issued, cycles>>

\* !stop_daily: cancel() raises CancelledError in the loop's invocation if it
\* is suspended in an await
StopDaily ==
    \E gate \in { ChannelIdGate(ch) : ch \in Channels } :
        LET out  == stop_daily_task(loop_task)
        IN  /\ event' = From(ViaChannelIdGate(gate),
                             Event("stop_daily_task",
                                   IF gate # "pass" THEN gate ELSE out.result, {}, <<>>))
            /\ loop_task' = IF gate # "pass" THEN loop_task ELSE out.loop_task
            /\ cycles' = IF gate = "pass" /\ out.loop_task # loop_task
                         THEN [cycles EXCEPT !.loop = "none"] ELSE cycles
            /\ UNCHANGED <<names_bound, current_challenge, challenge_history,
                           today, ticks, tokens_issued>>

\* !force_daily, up to `await ctx.send(...)`: the invocation of the cycle
\* follows in a later step
ForceDaily ==
    \E gate \in { ChannelIdGate(ch) : ch \in Channels } :
            /\ gate = "pass" => InFlight(cycles) < MaxCycles
            /\ event' = From(ViaChannelIdGate(gate),
                             Event("force_daily_cycle",
                                   IF gate # "pass" THEN gate ELSE "triggering", {}, <<>>))
            /\ cycles' = IF gate # "pass" THEN cycles
                         ELSE [cycles EXCEPT !.entered = @ + 1]
            /\ UNCHANGED <<names_bound, current_challenge, challenge_history,
                           loop_task, today, ticks, tokens_issued>>

\* daily_challenge_cycle() starts: awaited by force_daily_cycle, or run by the
\* loop at its time of day
CycleRuns ==
    \E src \in {"force", "loop"}, target_channel \in BOOLEAN :
    \E fetch_response \in IF target_channel /\ ~Falsy(current_challenge.id)
                          THEN FetchResponses ELSE {NoResponse} :
    \E create_response \in IF target_channel /\ Falsy(current_challenge.id)
                           THEN CreateResponsesNow ELSE {NoResponse} :
        LET run == daily_challenge_cycle(current_challenge, challenge_history, today,
                                         target_channel, fetch_response, create_response)
        IN  /\ src = "force" => cycles.entered > 0
            /\ src = "loop" => loop_task = "running" /\ cycles.loop = "none"
            /\ event' = Event(run.op, run.out.result, run.out.remote, <<src>>)
            /\ current_challenge' = run.out.current_challenge
            /\ challenge_history' = run.out.challenge_history
            /\ tokens_issued' = TokensAfter(run.out, create_response)
            /\ cycles' = IF src = "force"
                         THEN [cycles EXCEPT !.entered = @ - 1,
                                 !.sleeping = IF run.next = "sleeping" THEN @ + 1 ELSE @]
                         ELSE [cycles EXCEPT !.loop = IF run.next = "sleeping"
                                                      THEN "sleeping" ELSE "none"]
            \* an exception of the body ends the loop's task
            /\ loop_task' = IF src = "loop" /\ Raised(run.out.result)
                            THEN "failed" ELSE loop_task
            /\ UNCHANGED <<names_bound, today, ticks>>

\* asyncio.sleep(2) is over: create_todays_challenge(target_channel)
CycleCreates ==
    \E src \in {"force", "loop"}, create_response \in CreateResponsesNow :
        LET out == create_todays_challenge(current_challenge, challenge_history, today,
                                           create_response)
        IN  /\ src = "force" => cycles.sleeping > 0
            /\ src = "loop" => cycles.loop = "sleeping"
            /\ event' = Event("create_todays_challenge", out.result, out.remote, <<src>>)
            /\ current_challenge' = out.current_challenge
            /\ challenge_history' = out.challenge_history
            /\ tokens_issued' = TokensAfter(out, create_response)
            /\ cycles' = IF src = "force" THEN [cycles EXCEPT !.sleeping = @ - 1]
                         ELSE [cycles EXCEPT !.loop = "none"]
            /\ UNCHANGED <<names_bound, loop_task, today, ticks>>

Next ==
    \/ Tick
    \/ ManualChallenge
    \/ GetLeaderboard
    \/ CheckStatus
    \/ StartDaily
    \/ StopDaily
    \/ ForceDaily
    \/ CycleRuns
    \/ CycleCreates

Spec == Init /\ [][Next]_vars

----------------------------------------------------------------------------
(* Properties. *)

HasCurrent == ~Falsy(current_challenge.id)

\* the step just taken was create_todays_challenge, with this outcome
CreateStep(result) ==
    event'.op = "create_todays_challenge" /\ event'.result = result

\* C1: when the creation fails remotely (network error, non-success status,
\* a response without a token), create_todays_challenge leaves
\* current_challenge and challenge_history as they were.
C1_FailedCreateChangesNothing ==
    [][ (event'.op = "create_todays_challenge"
         /\ \E c \in event'.remote :
              c.call = "create" /\ c.answer \in {"network_error", "http_error", "no_token"})
        => /\ event'.result = "create_failed"
           /\ current_challenge' = current_challenge
           /\ challenge_history' = challenge_history ]_vars

\* C1 happens: a creation failed on a response without a token, with a
\* current challenge and a history in place.
C1_Witness ==
    /\ event.op = "create_todays_challenge"
    /\ event.result = "create_failed"
    /\ \E c \in event.remote : c.answer = "no_token"
    /\ HasCurrent
    /\ Len(challenge_history) >= 1

ManualCreated(map_name, mode_name) ==
    /\ event'.op = "manual_challenge"
    /\ event'.result = "created"
    /\ event'.args = <<map_name, mode_name>>

\* C4 as stated: from the initial state a successful !challenge pro_world
\* nomove yields day_number 1 and an empty history, and a following successful
\* !challenge arbitrary_rural nmpz yields day_number 2 and a history of one
\* entry, the first record.
C4_ManualChallengeUpdatesState ==
    [][ /\ (ManualCreated("pro_world", "nomove")
            /\ current_challenge = InitialChallenge /\ challenge_history = <<>>)
           => (current_challenge'.day_number = 1 /\ Len(challenge_history') = 0)
        /\ (ManualCreated("arbitrary_rural", "nmpz")
            /\ current_challenge.day_number = 1 /\ challenge_history = <<>>)
           => /\ current_challenge'.day_number = 2
              /\ challenge_history' = <<current_challenge>> ]_vars

\* C5 as stated: in a cycle that finds a current challenge, whatever the
\* outcome of post_previous_results, the invocation goes on to
\* create_todays_challenge (it is one more invocation waiting to create).
C5_CloseOutAlwaysProceeds ==
    [][ event'.op = "post_previous_results"
        => Waiting(cycles') = Waiting(cycles) + 1 ]_vars

\* the day a record was created on is d, and the record holds the rotation
\* entry of d's weekday
RotationOf(record, d) ==
    /\ record.created_at = Now(d)
    /\ record.map = DAILY_ROTATION[(d % 7) + 1].map
    /\ record.mode = DAILY_ROTATION[(d % 7) + 1].mode

\* C6: the record a successful daily cycle installs holds the map and mode of
\* the rotation entry of the weekday it ran on; so do the records of the
\* cycles of day N and of day N + 1, each for its own weekday.
C6_CycleSelectsRotationOfWeekday ==
    /\ HasCurrent => \E d \in 0..today : RotationOf(current_challenge, d)
    /\ \A k \in 1..Len(challenge_history) :
         \E d \in 0..today : RotationOf(challenge_history[k], d)
    /\ (event.op = "create_todays_challenge" /\ event.result = "created")
         => RotationOf(current_challenge, today)

\* C6 happens: a cycle ran on a Sunday and the next one on the Monday after.
C6_Witness ==
    /\ event.op = "create_todays_challenge"
    /\ event.result = "created"
    /\ today % 7 = 0
    /\ Len(challenge_history) = 2
    /\ challenge_history[1].created_at = Now(today - 1)
    /\ challenge_history[1].map = "informed_world"
    /\ challenge_history[1].mode = "nomove"
    /\ current_challenge.map = "community_world"
    /\ current_challenge.mode = "move"

\* C7 as stated: every invocation of the daily cycle advances day_number by
\* exactly one: the step in which an invocation runs create_todays_challenge,
\* its last, leaves day_number one higher.
C7_EveryCycleAdvances ==
    [][ event'.op = "create_todays_challenge"
        => current_challenge'.day_number = current_challenge.day_number + 1 ]_vars

\* C7 amended: an invocation of the daily cycle whose creation succeeds
\* advances day_number by exactly one, a second one on the same day included;
\* one whose creation fails, or that ends before it, leaves day_number as it
\* was, and so does every other step.
C7_SuccessfulCycleAdvancesByOne ==
    [][ IF CreateStep("created")
        THEN current_challenge'.day_number = current_challenge.day_number + 1
        ELSE current_challenge'.day_number = current_challenge.day_number ]_vars

\* C7 happens: two cycles created a challenge on the same day.
C7_Witness ==
    /\ event.op = "create_todays_challenge"
    /\ event.result = "created"
    /\ Len(challenge_history) = 2
    /\ challenge_history[1].created_at = challenge_history[2].created_at
    /\ current_challenge.day_number = 2

\* the step just taken was get_leaderboard, run past its channel check
LeaderboardStep ==
    event'.op = "get_leaderboard" /\ event'.result \notin {"ignored", "NameError"}

\* C8: without a current challenge, !leaderboard for the current challenge
\* answers "no active challenge", fetches nothing and changes nothing; and no
\* step fetches the results of a current challenge that does not exist (the
\* cycle does not run post_previous_results).
C8_NoActiveChallenge ==
    [][ ~HasCurrent
        => /\ (LeaderboardStep /\ event'.args = <<None>>)
              => /\ event'.result = "no_active_challenge"
                 /\ event'.remote = {}
                 /\ challenge_history' = challenge_history
                 /\ current_challenge' = current_challenge
           /\ event'.op # "post_previous_results"
           /\ "fetch" \in Calls(event'.remote)
              => (event'.op = "get_leaderboard" /\ event'.args # <<None>>) ]_vars

\* C8 happens: !leaderboard was answered "no active challenge".
C8_Witness ==
    /\ event.op = "get_leaderboard"
    /\ event.result = "no_active_challenge"
    /\ ~HasCurrent

\* C9: post_previous_results and get_leaderboard change neither
\* current_challenge nor challenge_history, whatever their outcome; the only
\* step that changes them is a successful create_todays_challenge.
C9_OnlyCreateWrites ==
    [][ (current_challenge' # current_challenge \/ challenge_history' # challenge_history)
        => CreateStep("created") ]_vars

\* C9 happens: the results of the current challenge were posted, and a fetch
\* of them failed, for a current challenge.
C9_Witness ==
    /\ event.op = "post_previous_results"
    /\ event.result \in {"fetch_failed", "results_posted"}
    /\ HasCurrent
    /\ Waiting(cycles) >= 1

\* the step just taken was this command, run past its channel check
Processed(op) ==
    event'.op = op /\ event'.result \notin {"ignored", "NameError"}

\* C11 as stated: !start_daily on a loop that is not running (never started,
\* or stopped earlier) leaves it running, and !stop_daily on a running loop
\* leaves it not running.
C11_StartableAndStoppable ==
    [][ /\ (Processed("start_daily_task") /\ loop_task # "running")
           => loop_task' = "running"
        /\ (Processed("stop_daily_task") /\ loop_task = "running")
           => loop_task' # "running" ]_vars

\* the step just taken fetched the results of the current challenge to close
\* it out, and the body it got had this shape
CloseOutGot(shape) ==
    /\ event'.op = "post_previous_results"
    /\ \E c \in event'.remote : c.call = "fetch" /\ c.answer = shape

\* C12 as stated: a results payload without any leaderboard entry (the empty
\* object, an object without 'items', an empty list of items) makes
\* post_previous_results post the "no one played" summary and the invocation
\* go on; it is never answered as a failed fetch.
C12_ZeroEntriesIsSuccess ==
    [][ (CloseOutGot("empty_object") \/ CloseOutGot("no_items")
         \/ CloseOutGot("no_entries"))
        => event'.result = "no_results" ]_vars

\* the map and the mode a !challenge with these arguments asks for: the
\* arguments if both are given, today's rotation otherwise
RequestedKeys(args, day) ==
    IF Falsy(args[1]) \/ Falsy(args[2])
    THEN <<get_today_rotation(day).map, get_today_rotation(day).mode>>
    ELSE args

\* C14: a !challenge whose map is not in MAPS or whose mode is not in
\* GAME_MODES is answered as invalid, without a call to the remote service
\* (no challenge is created there) and with current_challenge and
\* challenge_history as they were.
C14_InvalidConfigurationIsLocal ==
    [][ (Processed("manual_challenge")
         /\ (RequestedKeys(event'.args, today)[1] \notin DOMAIN MAPS
             \/ RequestedKeys(event'.args, today)[2] \notin DOMAIN GAME_MODES))
        => /\ event'.result \in {"invalid_map", "invalid_mode"}
           /\ event'.remote = {}
           /\ current_challenge' = current_challenge
           /\ challenge_history' = challenge_history ]_vars

\* C14 happens: with a challenge current, a !challenge named a mode that does
\* not exist (with a map that does) and was turned down.
C14_Witness ==
    /\ event.op = "manual_challenge"
    /\ event.result = "invalid_mode"
    /\ event.args = <<"pro_world", "zoom">>
    /\ HasCurrent

\* C15 as stated: a command from a channel outside ALLOWED_CHANNELS is
\* ignored (nothing is sent, nothing is called, nothing changes) and a
\* command from a channel of ALLOWED_CHANNELS is processed.
C15_ChannelGate ==
    [][ \A ch \in event'.channels :
          IF ch \in Range(ALLOWED_CHANNELS)
          THEN event'.result \notin {"ignored", "NameError"}
          ELSE /\ event'.result = "ignored"
               /\ event'.remote = {}
               /\ UNCHANGED <<current_challenge, challenge_history, loop_task,
                              tokens_issued, cycles>> ]_vars

\* C16 as stated: while an invocation of the daily cycle is between its
\* post_previous_results and its create_todays_challenge, no other invocation
\* runs create_todays_challenge: when a creation step is taken, no other
\* invocation is waiting to create.
C16_CyclesAreMutuallyExclusive ==
    [][ event'.op = "create_todays_challenge" => Waiting(cycles') = 0 ]_vars

\* C19: challenge_history is append-only: no step makes it shorter, and every
\* entry in it stays at its position with its field values, also when
\* current_challenge is replaced.
C19_HistoryIsAppendOnly ==
    [][ /\ Len(challenge_history') >= Len(challenge_history)
        /\ \A i \in 1..Len(challenge_history) :
             challenge_history'[i] = challenge_history[i] ]_vars

\* C19 happens: the record of the first challenge is still the first entry
\* of the history after a later challenge took its place as the current one.
C19_Witness ==
    /\ Len(challenge_history) = 2
    /\ challenge_history[1].id = "tok1"
    /\ challenge_history[1].day_number = 1
    /\ current_challenge.id = "tok2"
    /\ event.op \notin {"create_todays_challenge", "init"}

\* C20: in every reachable state, whatever the interleaving of cycle
\* invocations and commands, the day_number of current_challenge is the
\* length of challenge_history, the i-th entry of the history has day_number
\* i, and with a challenge current the last entry of the history equals
\* current_challenge.
C20_HistoryNumberedAndEndsWithCurrent ==
    /\ current_challenge.day_number = Len(challenge_history)
    /\ \A i \in 1..Len(challenge_history) : challenge_history[i].day_number = i
    /\ HasCurrent => /\ challenge_history # <<>>
                     /\ challenge_history[Len(challenge_history)] = current_challenge

\* C20 happens: of two overlapping invocations of the cycle one has created
\* the second challenge while the other is still waiting to create.
C20_Witness ==
    /\ event.op = "create_todays_challenge"
    /\ event.result = "created"
    /\ Waiting(cycles) >= 1
    /\ current_challenge.id = "tok2"
    /\ Len(challenge_history) = 2

----------------------------------------------------------------------------
(* format_leaderboard on its own: every list of up to MaxItems items, and  *)
(* lists longer than the default cap, under every cap up to MaxCap and the *)
(* default one.                                                            *)

Cat == [nick |-> "cat", totalScore |-> [amount |-> 987]]

Entries == { Item(Ann), Item(Cat), Item(NoNick), Item(NoScore), NoGame }

ItemLists == UNION { [1..k -> Entries] : k \in 0..MaxItems }

\* lists of well-formed items that reach and pass the default cap
LongLists ==
    { [k \in 1..n |-> IF k % 2 = 1 THEN Item(Ann) ELSE Item(Cat)] :
        n \in DefaultMaxPlayers..(DefaultMaxPlayers + MaxCap) }

FormatInputs ==
    { [items |-> q] : q \in ItemLists \cup LongLists }
    \cup { <<>>, [message |-> "no items here"] }

Caps == (0..MaxCap) \cup {DefaultMaxPlayers}

InitFormat ==
    /\ names_bound = FALSE
    /\ current_challenge = InitialChallenge
    /\ challenge_history = <<>>
    /\ loop_task = "none"
    /\ today = 0
    /\ ticks = 0
    /\ tokens_issued = 0
    /\ cycles = NoCycles
    /\ \E results \in FormatInputs, max_players \in Caps :
         event = Event("call", "", {}, <<results, max_players>>)

\* leaderboard = format_leaderboard(results, max_players)
FormatLeaderboard ==
    /\ event.op = "call"
    /\ event' = Event("format_leaderboard",
                      format_leaderboard(event.args[1], event.args[2]), {}, event.args)
    /\ UNCHANGED <<names_bound, current_challenge, challenge_history, loop_task,
                   today, ticks, tokens_issued, cycles>>

NextFormat == FormatLeaderboard

FormatSpec == InitFormat /\ [][NextFormat]_vars

\* format_leaderboard has returned or raised
Formatted == event.op = "format_leaderboard"

\* the items of the payload that was formatted, and those within the cap
ItemsOf(results) == IF "items" \in DOMAIN results THEN results.items ELSE <<>>

Capped(results, cap) == SubSeq(ItemsOf(results), 1, Min(Len(ItemsOf(results)), cap))

LacksNick(item) == HasPlayer(item) /\ "nick" \notin DOMAIN item.game.player

LacksScore(item) ==
    HasPlayer(item) /\ AmountOf(item.game.player, StrVal("0")).type # "int"

\* the line of an entry at rank i, a missing nick read as "Unknown" and a
\* missing score as 0
LineWithDefaults(i, player) ==
    Medal(i) \o ToString(i) \o ". **" \o NickOf(player) \o "** - "
    \o Commas(AmountOf(player, IntVal(0)).int)

\* C13 as stated: when one entry of the payload lacks its nick or its score,
\* format_leaderboard does not raise, and every entry within the cap has its
\* line, the defective one with "Unknown" or 0.
C13_MalformedEntryGetsDefaults ==
    LET results == event.args[1]
        items   == ItemsOf(results)
        list    == Capped(results, event.args[2])
    IN  (Formatted
         /\ Cardinality({ k \in 1..Len(items) :
                            LacksNick(items[k]) \/ LacksScore(items[k]) }) = 1)
        => /\ ~event.result.raised
           /\ \A i \in 1..Len(list) :
                HasPlayer(list[i])
                => LineWithDefaults(i, list[i].game.player) \in Range(event.result.value)

\* C18 as stated, on the payloads in which no player lacks a score: for a
\* payload of n items and a cap c the leaderboard holds the first min(n, c)
\* items in the order of the response, ranked 1..min(n, c), and no error is
\* raised.
C18_FirstItemsRankedInOrder ==
    LET items == ItemsOf(event.args[1])
        list  == Capped(event.args[1], event.args[2])
    IN  (Formatted /\ \A k \in 1..Len(items) : ~LacksScore(items[k]))
        => /\ ~event.result.raised
           /\ Len(event.result.value) = Len(list)
           /\ \A i \in 1..Len(list) :
                /\ HasPlayer(list[i])
                /\ event.result.value[i] = LineWithDefaults(i, list[i].game.player)

\* the positions, among the first min(n, c), of the items that carry a player
KeptPositions(list) ==
    SelectSeq([i \in 1..Len(list) |-> i], LAMBDA i : HasPlayer(list[i]))

\* C18 amended: format_leaderboard looks at the first min(n, c) items only,
\* in the order of the response.  Each of them that carries game.player
\* yields one line, ranked by the item's position in the response (1-based);
\* an item without game.player yields no line and its rank stays unused.
\* Items past the cap are dropped without an error, whatever they hold.  If
\* one of the first min(n, c) items has a player without a score, the call
\* raises instead of returning.
C18_CapAndRanks ==
    LET list == Capped(event.args[1], event.args[2])
        kept == KeptPositions(list)
    IN  Formatted
        => IF \E i \in 1..Len(list) : LacksScore(list[i])
           THEN event.result.raised
           ELSE /\ ~event.result.raised
                /\ Len(event.result.value) = Len(kept)
                /\ \A k \in 1..Len(kept) :
                     event.result.value[k]
                       = LineWithDefaults(kept[k], list[kept[k]].game.player)

\* C18 happens: a payload of one item more than the default cap was formatted
\* under the default cap, into as many lines as the cap.
C18_Witness ==
    /\ Formatted
    /\ event.args[2] = DefaultMaxPlayers
    /\ Len(ItemsOf(event.args[1])) = DefaultMaxPlayers + 1
    /\ ~event.result.raised
    /\ Len(event.result.value) = DefaultMaxPlayers

====
